---- MODULE Spec2Model ----
(***************************************************************************)
(* Swap-Pricer: the schedule and valuation generator of src/App.tsx        *)
(* (generateSmartCashflows and its helpers formatDate, addMonths and       *)
(* getFrequencyMonths) and its caller handleCalculate, which builds the    *)
(* summary and updates the state of the App component.                     *)
(*                                                                         *)
(* Representation.                                                         *)
(*   - A date string "YYYY-MM-DD" is a record [y, m, d]; a string that     *)
(*     does not parse is the record Malformed.                             *)
(*   - A Date object is [valid, t]: t is the time value in hours since     *)
(*     1970-01-01T00:00Z, valid = FALSE is the Invalid Date (NaN).         *)
(*   - The local time zone is a fixed offset of tz hours from UTC.         *)
(*   - An array is a reference into heap, the sequence of the contents of  *)
(*     the arrays allocated so far; rows is the array of the running or    *)
(*     last call of the generator.                                         *)
(*   - Money is in cents, a rate is in hundredths of a percentage point,   *)
(*     a rounded discount factor is in units of 1/10000 and an unrounded   *)
(*     one in units of 1/DFScale.  Interest is kept as an exact fraction.  *)
(*   - A mounted component is an entry of views: React gives every mount   *)
(*     of ResultsPage its own aiAnalysis and loadingAi, and a setter       *)
(*     called by a run of handleAiAnalyze acts on the instance the run     *)
(*     was started from.  The instance on screen is the last one, while    *)
(*     the results page is shown.                                          *)
(***************************************************************************)
EXTENDS Integers, Sequences, FiniteSets, TLC

VARIABLES tz, pc, deal, end, currentDate, monthsToAdd, period, rowsRef, heap,
          currentPage, currentDeal, pricingResult, deals, hist,
          views, aiRuns

vars == <<tz, pc, deal, end, currentDate, monthsToAdd, period, rowsRef, heap,
          currentPage, currentDeal, pricingResult, deals, hist,
          views, aiRuns>>

\* the state of the App component (src/App.tsx:641-646)
appVars == <<currentPage, currentDeal, pricingResult, deals>>

\* the analysis: the instances of ResultsPage mounted so far with their
\* state (src/App.tsx:417-419), and the runs of handleAiAnalyze started so far
aiVars == <<views, aiRuns>>

(***************************************************************************)
(* Bounds of the model.                                                    *)
(***************************************************************************)
\* no schedule of the model has more periods than this (guard of LoopIter)
MaxPeriod == 3100
\* last calendar year of the long schedule
LongEndYear == 2256

(***************************************************************************)
(* Units.                                                                  *)
(***************************************************************************)
HoursPerDay == 24
\* an unrounded discount factor is a multiple of 1 / DFScale = 2^-30
DFScale == 1073741824
\* 2^15: the half word of the exact product below
HalfWord == 32768
\* units of a discount factor rounded by toFixed(4)
DFDecimals == 10000
\* cents = notional * rate * months / InterestDen (rate in 1/100 of a percent)
InterestDen == 1200

(***************************************************************************)
(* Exact integer helpers (all intermediate values stay below 2^31).        *)
(***************************************************************************)
\* the value of the number type that is not a number; every other number of
\* the model is an integer of smaller magnitude
NaN == -2147483647

IsNaN(x) == x = NaN

\* Math.abs(x), x + y and -x of the number type: NaN when an operand is NaN
Abs(x) == IF IsNaN(x) THEN NaN ELSE IF x < 0 THEN -x ELSE x

Plus(x, y) == IF IsNaN(x) \/ IsNaN(y) THEN NaN ELSE x + y

Neg(x) == IF IsNaN(x) THEN NaN ELSE -x

\* a * b = q * c + r with 0 <= r < c, for 0 <= a < 2^31 and 0 <= b, c < 2^11
\* (c > 0), by half words of a
MulDivQR(a, b, c) ==
  LET hi   == (a \div HalfWord) * b
      lo   == (a % HalfWord) * b
      rest == (hi % c) * HalfWord + lo
  IN  [q |-> (hi \div c) * HalfWord + (rest \div c), r |-> rest % c]

\* a * b = q * DFScale + r with 0 <= r < DFScale, for 0 <= a, b <= DFScale,
\* by half words
MulScaleQR(a, b) ==
  LET a1  == a \div HalfWord
      a0  == a % HalfWord
      b1  == b \div HalfWord
      b0  == b % HalfWord
      mid == a1 * b0 + a0 * b1
      low == (mid % HalfWord) * HalfWord + a0 * b0
  IN  [q |-> a1 * b1 + (mid \div HalfWord) + (low \div DFScale),
       r |-> low % DFScale]

\* a * b / DFScale rounded to the nearest integer
MulScaleRound(a, b) ==
  LET x == MulScaleQR(a, b)
  IN  x.q + (IF 2 * x.r >= DFScale THEN 1 ELSE 0)

(***************************************************************************)
(* The calendar of the Date object (proleptic Gregorian, UTC days).        *)
(***************************************************************************)
IsLeap(y) == (y % 4 = 0 /\ y % 100 # 0) \/ y % 400 = 0

DaysInMonth(y, m) ==
  IF m = 2 THEN (IF IsLeap(y) THEN 29 ELSE 28)
  ELSE IF m \in {4, 6, 9, 11} THEN 30 ELSE 31

\* day number (days since 1970-01-01) of the civil date y-m-d
DaysFromCivil(y, m, d) ==
  LET yy  == IF m <= 2 THEN y - 1 ELSE y
      era == yy \div 400
      yoe == yy - era * 400
      mp  == IF m > 2 THEN m - 3 ELSE m + 9
      doy == ((153 * mp + 2) \div 5) + d - 1
      doe == yoe * 365 + (yoe \div 4) - (yoe \div 100) + doy
  IN  era * 146097 + doe - 719468

\* civil date of a day number
CivilFromDays(n) ==
  LET z   == n + 719468
      era == z \div 146097
      doe == z - era * 146097
      yoe == (doe - (doe \div 1460) + (doe \div 36524) - (doe \div 146096)) \div 365
      doy == doe - (365 * yoe + (yoe \div 4) - (yoe \div 100))
      mp  == (5 * doy + 2) \div 153
      d   == doy - ((153 * mp + 2) \div 5) + 1
      m   == IF mp < 10 THEN mp + 3 ELSE mp - 9
      y   == yoe + era * 400 + (IF m <= 2 THEN 1 ELSE 0)
  IN  [y |-> y, m |-> m, d |-> d]

NaNDate == [valid |-> FALSE, t |-> 0]

Malformed == [y |-> 0, m |-> 0, d |-> 0]

IsCalendarDate(s) ==
  /\ s.y >= 1
  /\ s.m \in 1..12
  /\ s.d >= 1
  /\ s.d <= DaysInMonth(s.y, s.m)

\* new Date("YYYY-MM-DD"): a date-only string is midnight UTC; anything else
\* that does not parse is the Invalid Date
ParseDate(s) ==
  IF IsCalendarDate(s)
  THEN [valid |-> TRUE, t |-> HoursPerDay * DaysFromCivil(s.y, s.m, s.d)]
  ELSE NaNDate

\* date.toISOString().split('T')[0]: the UTC calendar date of the time value
formatDate(date) == CivilFromDays(date.t \div HoursPerDay)

\* newDate.setMonth(newDate.getMonth() + months): the month is read and set in
\* LOCAL time (zone offset z hours); a day of month the target month does not
\* have rolls over into the following month; the local time of day is kept
addMonths(date, months, z) ==
  IF ~date.valid THEN NaNDate
  ELSE LET localT == date.t + z
           local  == CivilFromDays(localT \div HoursPerDay)
           hour   == localT % HoursPerDay
           mn     == (local.m - 1) + months
           ym     == local.y + (mn \div 12)
           day    == DaysFromCivil(ym, (mn % 12) + 1, 1) + local.d - 1
       IN  [valid |-> TRUE, t |-> day * HoursPerDay + hour - z]

\* the mutated switch ignores the case of the name
getFrequencyMonthsIgnoreCase(freq) ==
  CASE freq \in {"Monthly", "monthly"}         -> 1
    [] freq \in {"Quarterly", "quarterly"}     -> 3
    [] freq \in {"Semi-Annual", "semi-annual"} -> 6
    [] freq \in {"Annual", "annual"}           -> 12
    [] OTHER                                   -> 3

\* the mutated default of the switch is 0
getFrequencyMonthsZeroDefault(freq) ==
  CASE freq = "Monthly"     -> 1
    [] freq = "Quarterly"   -> 3
    [] freq = "Semi-Annual" -> 6
    [] freq = "Annual"      -> 12
    [] OTHER                -> 0

\* the switch of getFrequencyMonths: months per period, 3 when unrecognised
getFrequencyMonths(freq) ==
  CASE freq = "Monthly"     -> 1
    [] freq = "Quarterly"   -> 3
    [] freq = "Semi-Annual" -> 6
    [] freq = "Annual"      -> 12
    [] OTHER                -> 3

(***************************************************************************)
(* The arithmetic of one row (src/App.tsx:59-93), over exact fractions.    *)
(* An interest amount is [nan, neg, q, r]: NaN when nan, otherwise the     *)
(* value (-1 if neg) * (q + r / InterestDen) cents.                        *)
(***************************************************************************)
\* the mutated perturbation is Math.random() - 0.5
JitterFull(rv) == 2 * rv - 50

\* Math.random() * 0.5 - 0.25 in hundredths of a percentage point, for a draw
\* of rv / 50 from Math.random() (rv in 0..49)
Jitter(rv) == rv - 25

\* the mutated rate is perturbed whatever the leg's type
EffectiveRateAlwaysJittered(leg, rv) == Plus(leg.rate, Jitter(rv))

\* leg.type === 'Floating' ? leg.rate + (Math.random() * 0.5 - 0.25) : leg.rate
EffectiveRate(leg, rv) ==
  IF leg.type = "Floating" THEN Plus(leg.rate, Jitter(rv)) ELSE leg.rate

\* the mutated amount leaves the time fraction out
InterestPerAnnum(notional, rate, months) ==
  IF IsNaN(notional) \/ IsNaN(rate)
  THEN [nan |-> TRUE, neg |-> FALSE, q |-> 0, r |-> 0]
  ELSE LET x == MulDivQR(Abs(notional * rate), 12, InterestDen)
       IN  [nan |-> FALSE, neg |-> (notional * rate < 0), q |-> x.q, r |-> x.r]

\* the mutated amount takes a NaN notional or rate as 0
InterestNaNAsZero(notional, rate, months) ==
  IF IsNaN(notional) \/ IsNaN(rate)
  THEN [nan |-> FALSE, neg |-> FALSE, q |-> 0, r |-> 0]
  ELSE LET x == MulDivQR(Abs(notional * rate), months, InterestDen)
       IN  [nan |-> FALSE, neg |-> (notional * rate < 0), q |-> x.q, r |-> x.r]

\* notional * (rate / 100) * timeFraction, timeFraction = months / 12; NaN
\* when the notional or the rate is NaN
Interest(notional, rate, months) ==
  IF IsNaN(notional) \/ IsNaN(rate)
  THEN [nan |-> TRUE, neg |-> FALSE, q |-> 0, r |-> 0]
  ELSE LET x == MulDivQR(Abs(notional * rate), months, InterestDen)
       IN  [nan |-> FALSE, neg |-> (notional * rate < 0), q |-> x.q, r |-> x.r]

\* Number(interest.toFixed(2)), in cents
FlowCents(i) ==
  LET mag == i.q + (IF 2 * i.r >= InterestDen THEN 1 ELSE 0)
  IN  IF i.nan THEN NaN ELSE IF i.neg THEN -mag ELSE mag

\* 1.04^(-r/12) for r = 0..11, in units of 1 / DFScale
MonthFactor ==
  << 1073741824, 1070238143, 1066745894, 1063265041, 1059795546, 1056337373,
     1052890483, 1049454841, 1046030410, 1042617153, 1039215033, 1035824015 >>

\* 1.04^(-(2^k)) for k = 0..11, in units of 1 / DFScale
YearFactor ==
  << 1032444062, 992734675, 917839011, 784572633, 573279538, 306078633,
     87250144, 7089775, 46813, 2, 0, 0 >>

\* 1.04^(-years * 2^(k-1)) in units of 1 / DFScale, by the binary digits of
\* years (years < 2^12); the set binder evaluates the partial product once
RECURSIVE PowBits(_, _)
PowBits(years, k) ==
  IF years = 0 THEN DFScale
  ELSE IF years % 2 = 0 THEN PowBits(years \div 2, k + 1)
  ELSE CHOOSE f \in { MulScaleRound(x, YearFactor[k]) :
                        x \in {PowBits(years \div 2, k + 1)} } : TRUE

\* 1.04^(-years) in units of 1 / DFScale
PowYears(years) == PowBits(years, 1)

\* the mutated period index starts at 0
discountFactorFromZero(per, months) ==
  CHOOSE f \in { MulScaleRound(x, MonthFactor[(((per - 1) * months) % 12) + 1]) :
                   x \in {PowYears(((per - 1) * months) \div 12)} } : TRUE

\* the mutated exponent is the period index, not period * timeFraction
discountFactorPerPeriod(per, months) == PowYears(per)

\* 1 / Math.pow(1.04, period * timeFraction) in units of 1 / DFScale
discountFactor(per, months) ==
  CHOOSE f \in { MulScaleRound(x, MonthFactor[((per * months) % 12) + 1]) :
                   x \in {PowYears((per * months) \div 12)} } : TRUE

\* Number(discountFactor.toFixed(4)), in units of 1 / DFDecimals
DFRounded(f) == MulScaleRound(f, DFDecimals)

\* sign of (L * DFScale) - (InterestDen * g + e), for 0 <= e < InterestDen
CmpScaled(L, g, e) ==
  IF L < 0 THEN -1
  ELSE LET x == MulDivQR(DFScale, L, InterestDen)
       IN  IF x.q # g THEN (IF x.q > g THEN 1 ELSE -1)
           ELSE IF x.r # e THEN (IF x.r > e THEN 1 ELSE -1)
           ELSE 0

\* (|i1| - |i2| * f).toFixed(2) in cents for amounts that are numbers, f in
\* units of 1 / DFScale: the exact value is w + i1.r / InterestDen - (g + e /
\* InterestDen) / DFScale, rounded to the nearest cent, halves away from zero
RoundedNet(i1, i2, f) ==
  LET a   == MulScaleQR(i2.q, f)
      c   == MulDivQR(f, i2.r, InterestDen)
      g0  == a.r + c.q
      g   == IF g0 >= DFScale THEN g0 - DFScale ELSE g0
      w   == i1.q - a.q - (IF g0 >= DFScale THEN 1 ELSE 0)
      e   == c.r
      \* sign of (fraction - k/2) for k = -1, 0, 1
      lo  == CmpScaled(i1.r + (InterestDen \div 2), g, e)
      mid == CmpScaled(i1.r, g, e)
      hi  == CmpScaled(i1.r - (InterestDen \div 2), g, e)
      nonneg == w >= 1 \/ (w = 0 /\ mid >= 0)
  IN  IF nonneg
      THEN w + (IF hi >= 0 THEN 1 ELSE IF lo >= 0 THEN 0 ELSE -1)
      ELSE w + (IF hi > 0 THEN 1 ELSE IF lo > 0 THEN 0 ELSE -1)

\* the mutated present value discounts leg 1 instead of leg 2
PresentValueSwapped(i1, i2, f) ==
  IF i1.nan \/ i2.nan THEN NaN ELSE RoundedNet(i2, i1, f)

\* the mutated present value leaves the discount factor out
PresentValueUndiscounted(i1, i2, f) ==
  IF i1.nan \/ i2.nan THEN NaN ELSE RoundedNet(i1, i2, DFScale)

\* Number((Math.abs(leg1Interest) - Math.abs(leg2Interest) * discountFactor)
\* .toFixed(2)) in cents; NaN when either interest amount is NaN
PresentValueCents(i1, i2, f) ==
  IF i1.nan \/ i2.nan THEN NaN ELSE RoundedNet(i1, i2, f)

\* the row built from the cursor, the two interest amounts and the discount
\* factor (src/App.tsx:85-94)
RowOf(cur, leg1Interest, leg2Interest, df) ==
  [date           |-> formatDate(cur),
   leg1Flow       |-> FlowCents(leg1Interest),
   leg2Flow       |-> Neg(FlowCents(leg2Interest)),
   discountFactor |-> DFRounded(df),
   presentValue   |-> PresentValueCents(leg1Interest, leg2Interest, df)]

\* the row pushed by one loop iteration (src/App.tsx:55-94) for the draws rv1
\* and rv2 of Math.random(); the set binders evaluate each amount once
Row(d, cur, per, months, rv1, rv2) ==
  CHOOSE row \in
    { RowOf(cur, leg1Interest, leg2Interest, df) :
        leg1Interest \in
          {Interest(d.leg1.notional, EffectiveRate(d.leg1, rv1), months)},
        leg2Interest \in
          {Interest(d.leg2.notional, EffectiveRate(d.leg2, rv2), months)},
        df \in {discountFactor(per, months)} } : TRUE

(***************************************************************************)
(* Inputs: the deals a caller may submit and the environment.              *)
(***************************************************************************)
\* offsets of the local time zone from UTC, in hours
TimeZones == {-5, 0, 9}

\* draws of Math.random(), in units of 1/50
RandomValues == {0, 49}

Frequencies == {"Monthly", "Quarterly", "Semi-Annual", "Annual"}

\* frequency strings getFrequencyMonths does not recognise
OtherFrequencies == {"Weekly", "", "monthly"}

Date(y, m, d) == [y |-> y, m |-> m, d |-> d]

Leg(cur, notional, rate, type, freq, conv) ==
  [currency |-> cur, notional |-> notional, rate |-> rate, type |-> type,
   frequency |-> freq, convention |-> conv]

Deal(s, e, l1, l2) ==
  [valueDate |-> Date(2024, 9, 27), startDate |-> s, endDate |-> e,
   leg1 |-> l1, leg2 |-> l2]

\* a Fixed leg of 1,000,000 at 4%
StdLeg(cur, freq) == Leg(cur, 1000000, 400, "Fixed", freq, "30/360")

StartDates ==
  { Date(2024, 10, 1), Date(2024, 1, 31), Date(2023, 12, 31),
    Date(2024, 2, 29), Date(2024, 3, 15), Date(2025, 1, 1), Malformed }

EndDates ==
  { Date(2024, 1, 15), Date(2024, 2, 29), Date(2024, 3, 1), Date(2024, 3, 31),
    Date(2024, 10, 31), Date(2024, 11, 1), Date(2025, 1, 1), Date(2025, 3, 1),
    Date(2025, 4, 1), Date(2025, 10, 1), Malformed }

\* Fixed/Fixed deals over every start date, end date and leg-1 frequency
ScheduleDeals ==
  { Deal(s, e, StdLeg("BRL", f), StdLeg("USD", "Semi-Annual")) :
      s \in StartDates, e \in EndDates, f \in Frequencies \cup OtherFrequencies }

\* schedules that span more than 250 years
LongDeals ==
  { Deal(Date(2000, 1, 1), Date(LongEndYear, 1, 1),
         Leg("BRL", 250000, 150, "Fixed", f, "Actual/365"),
         Leg("USD", 100000, 375, "Fixed", "Annual", "30/360")) :
      f \in {"Annual", "Semi-Annual", "Monthly"} }

\* the leg types of the small deals: [leg 1, leg 2]
LegTypePairs ==
  { <<"Fixed", "Fixed">>, <<"Floating", "Fixed">>, <<"Fixed", "Floating">> }

\* two-period deals that vary the leg types, leg 2's frequency and both
\* legs' conventions
PairDeals ==
  { Deal(Date(2024, 10, 1), Date(2025, 4, 1),
         Leg("BRL", 1000000, 125, t[1], "Quarterly", c1),
         Leg("USD", 185000, 375, t[2], f2, c2)) :
      t \in LegTypePairs, f2 \in {"Quarterly", "Annual"},
      c1 \in {"Actual/365", "Actual/360"}, c2 \in {"30/360", "Actual/365"} }

\* a short deal with two Floating legs
FloatingDeals ==
  { Deal(Date(2024, 10, 1), Date(2025, 4, 1),
         Leg("BRL", 1000000, 125, "Floating", f, "Actual/365"),
         Leg("USD", 185000, 10, "Floating", "Quarterly", "30/360")) :
      f \in {"Quarterly", "Semi-Annual"} }

\* the numbers of a deal one of which is NaN:
\* <<leg 1 notional, leg 1 rate, leg 1 type, leg 2 notional, leg 2 rate, leg 2 type>>
NaNTerms ==
  { <<NaN, 125, "Fixed", 185000, 375, "Fixed">>,
    <<1000000, NaN, "Fixed", 185000, 375, "Fixed">>,
    <<1000000, NaN, "Floating", 185000, 375, "Floating">>,
    <<1000000, 125, "Fixed", NaN, 375, "Fixed">>,
    <<1000000, 125, "Floating", 185000, NaN, "Floating">>,
    <<NaN, 125, "Fixed", 185000, NaN, "Fixed">> }

\* deals with a notional or a rate that is not a number, with and without rows
NaNDeals ==
  { Deal(Date(2024, 10, 1), e,
         Leg("BRL", x[1], x[2], x[3], "Quarterly", "Actual/365"),
         Leg("USD", x[4], x[5], x[6], "Semi-Annual", "30/360")) :
      x \in NaNTerms, e \in {Date(2025, 4, 1), Date(2024, 10, 31)} }

\* a deal whose period interest is below one cent on leg 1 (0.000025) and
\* not a whole number of cents on leg 2 (0.1375)
TinyDeals ==
  { Deal(Date(2024, 10, 1), Date(2025, 4, 1),
         Leg("BRL", 1, 1, "Fixed", "Quarterly", "Actual/365"),
         Leg("USD", 100, 55, "Fixed", "Semi-Annual", "30/360")) }

\* a deal with another value date, other currencies, notionals and rates
OtherTermsDeals ==
  { [valueDate |-> Date(2020, 1, 1), startDate |-> Date(2024, 10, 1),
     endDate |-> Date(2025, 4, 1),
     leg1 |-> Leg("EUR", 2500000, 50, "Fixed", "Quarterly", "Actual/360"),
     leg2 |-> Leg("JPY", 35000000, 10, "Fixed", "Annual", "Actual/365")] }

Deals ==
  ScheduleDeals \cup LongDeals \cup PairDeals \cup FloatingDeals \cup NaNDeals
    \cup TinyDeals \cup OtherTermsDeals

\* the form's initial deal (src/App.tsx:261-267), the value of `deal` before
\* the first call
InitialDeal ==
  Deal(Date(2024, 10, 1), Date(2029, 10, 1),
       Leg("BRL", 10000000, 125, "Floating", "Quarterly", "Actual/365"),
       Leg("USD", 1850000, 375, "Fixed", "Semi-Annual", "30/360"))

(***************************************************************************)
(* handleCalculate (src/App.tsx:676-710) and generateSmartCashflows, which *)
(* it calls (src/App.tsx:40-100), as a state machine: Call is lines        *)
(* 676-681 and 41-52, LoopIter one pass of the while loop (lines 54-98),   *)
(* Return the exit of the loop, line 99 and lines 684-709.                 *)
(***************************************************************************)
\* the value of a state that holds no object yet
Null == [null |-> TRUE]

\* the array of the running or last call: const rows (line 41)
rows == IF rowsRef = 0 THEN <<>> ELSE heap[rowsRef]

\* the mutated generator keeps one array for all its calls and empties it
NewArrayShared(h) ==
  [ref |-> 1, heap |-> IF h = <<>> THEN << <<>> >> ELSE [h EXCEPT ![1] = <<>>]]

\* const rows: CashflowRow[] = []: a new, empty array
NewArray(h) == [ref |-> Len(h) + 1, heap |-> Append(h, <<>>)]

\* the mutated step is read from leg 2
StepMonthsLeg2(d) == getFrequencyMonths(d.leg2.frequency)

\* getFrequencyMonths(deal.leg1.frequency): leg 1 drives the schedule
StepMonths(d) == getFrequencyMonths(d.leg1.frequency)

\* the mutated loop test is !(currentDate > end), true when either is NaN
LoopCondNotGreater(cur, e) == ~(cur.valid /\ e.valid /\ cur.t > e.t)

\* the mutated loop test compares year and month only
LoopCondByMonth(cur, e) ==
  /\ cur.valid
  /\ e.valid
  /\ formatDate(cur).y * 12 + formatDate(cur).m
       <= formatDate(e).y * 12 + formatDate(e).m

\* currentDate <= end: a comparison of time values, false when either is NaN
LoopCond(cur, e) == cur.valid /\ e.valid /\ cur.t <= e.t

\* the sum of xs[a..b], NaN when a term is NaN
RECURSIVE SumRange(_, _, _)
SumRange(xs, a, b) ==
  IF a > b THEN 0
  ELSE IF a = b THEN xs[a]
  ELSE Plus(SumRange(xs, a, (a + b) \div 2), SumRange(xs, ((a + b) \div 2) + 1, b))

\* xs.reduce((acc, x) => acc + x, 0); integer addition is associative, so the
\* sum is taken by halves
Reduce(xs) == SumRange(xs, 1, Len(xs))

\* the mutated leg-1 total is discounted: the sum of flow * discountFactor
Leg1SumDiscounted(rs) ==
  Reduce([i \in 1..Len(rs) |->
            IF IsNaN(rs[i].leg1Flow) THEN NaN
            ELSE MulDivQR(Abs(rs[i].leg1Flow), rs[i].discountFactor, DFDecimals).q])

\* lines 684-686: the sums of the rows' presentValue, leg1Flow and leg2Flow
SumPv(rs) == Reduce([i \in 1..Len(rs) |-> rs[i].presentValue])

Leg1Sum(rs) == Reduce([i \in 1..Len(rs) |-> rs[i].leg1Flow])

Leg2Sum(rs) == Reduce([i \in 1..Len(rs) |-> rs[i].leg2Flow])

\* lines 689-699: the PricingResult (without its formatted text); the rates
\* are in hundredths of a percentage point, which is the spread's unit
Summary(d, rs, ref) ==
  [npvTotal  |-> SumPv(rs),
   spread    |-> Abs(Plus(d.leg1.rate, Neg(d.leg2.rate))),
   principal |-> d.leg2.notional,
   leg1Npv   |-> Leg1Sum(rs),
   leg2Npv   |-> Leg2Sum(rs),
   cashflows |-> ref]

\* n.toString().padStart(3, '0')
PadStart3(str) ==
  IF Len(str) >= 3 THEN str
  ELSE IF Len(str) = 2 THEN "0" \o str ELSE "00" \o str

\* the mutated id is numbered by the length of the list
NewIdFromLength(ds) == "SWP-" \o PadStart3(ToString(Len(ds)))

\* line 678: the id of the next deal
NewId(ds) == "SWP-" \o PadStart3(ToString(Len(ds) + 1))

\* line 701: { ...inputDeal, id: newId, status: 'Active' }
NewDeal(d, id) ==
  [id |-> id, status |-> "Active", valueDate |-> d.valueDate,
   startDate |-> d.startDate, endDate |-> d.endDate,
   leg1 |-> d.leg1, leg2 |-> d.leg2]

StoredDeal(id, status, v, st, e, l1, l2) ==
  [id |-> id, status |-> status, valueDate |-> v, startDate |-> st,
   endDate |-> e, leg1 |-> l1, leg2 |-> l2]

\* the initial list of deals (lines 646-674)
MockDeals ==
  << StoredDeal("SWP-001", "Active", Date(2024, 1, 1), Date(2024, 1, 3),
                Date(2025, 12, 31),
                Leg("BRL", 5000000, 110, "Floating", "Quarterly", "Actual/365"),
                Leg("USD", 1000000, 450, "Fixed", "Semi-Annual", "30/360")),
     StoredDeal("SWP-002", "Active", Date(2024, 2, 15), Date(2024, 2, 17),
                Date(2026, 6, 15),
                Leg("EUR", 2500000, 50, "Floating", "Semi-Annual", "Actual/360"),
                Leg("JPY", 350000000, 10, "Fixed", "Annual", "Actual/365")),
     StoredDeal("SWP-003", "Pending", Date(2023, 8, 29), Date(2023, 9, 1),
                Date(2024, 9, 1),
                Leg("GBP", 1000000, 150, "Fixed", "Annual", "Actual/365"),
                Leg("AUD", 1800000, 320, "Floating", "Quarterly", "Actual/365")) >>

\* ResultsPage is mounted (src/App.tsx:417-419): useState("") and
\* useState(false), with the deal and the result it was given
Mount(d, result) ==
  [deal |-> d, result |-> result, aiAnalysis |-> "", loadingAi |-> FALSE]

\* a run of handleAiAnalyze whose analyzeSwapDeal returned without a remote
\* request has not resumed yet: its await resumes in a microtask, which
\* runs before the handler of any later event
MicrotaskPending ==
  \E i \in 1..Len(aiRuns) : ~aiRuns[i].settled /\ ~aiRuns[i].remote

Init ==
  /\ tz \in TimeZones
  /\ pc = "idle"
  /\ deal = InitialDeal
  /\ end = NaNDate
  /\ currentDate = NaNDate
  /\ monthsToAdd = 3
  /\ period = 1
  /\ rowsRef = 0
  /\ heap = <<>>
  /\ currentPage = "dashboard"
  /\ currentDeal = Null
  /\ pricingResult = Null
  /\ deals = MockDeals
  /\ hist = <<>>
  /\ views = <<>>
  /\ aiRuns = <<>>

\* setPage(Page.DASHBOARD) and setPage(Page.PRICER) of the navigation (lines
\* 118, 125, 142, 161, 167, 198); no handler runs while a call is running
SetPage(p) ==
  /\ pc # "loop"
  /\ ~MicrotaskPending
  /\ currentPage' = p
  /\ UNCHANGED <<tz, pc, deal, end, currentDate, monthsToAdd, period, rowsRef,
                 heap, currentDeal, pricingResult, deals, hist, aiVars>>

\* lines 41-52: a new array, parse the dates, pick the step, advance to the
\* first payment
Enter(d) ==
  /\ deal' = d
  /\ end' = ParseDate(d.endDate)
  /\ monthsToAdd' = StepMonths(d)
  /\ currentDate' = addMonths(ParseDate(d.startDate), StepMonths(d), tz)
  /\ period' = 1
  /\ rowsRef' = NewArray(heap).ref
  /\ heap' = NewArray(heap).heap
  /\ pc' = "loop"
  /\ UNCHANGED <<tz, appVars, aiVars>>

\* the first pricing request: the form (shown on the pricer page) submits d
Call(d) ==
  /\ pc = "idle"
  /\ ~MicrotaskPending
  /\ currentPage = "pricer"
  /\ Enter(d)
  /\ UNCHANGED hist

\* a later pricing request, the input and the result of the request before
\* it being remembered
CallAgain(d) ==
  /\ pc = "done"
  /\ ~MicrotaskPending
  /\ currentPage = "pricer"
  /\ hist = <<>>
  /\ hist' = <<[deal |-> deal, rows |-> rows, result |-> pricingResult]>>
  /\ Enter(d)

\* lines 54-97: one pass of the loop body.  formatDate (line 55) throws a
\* RangeError for an Invalid Date (toISOString), which ends the call with an
\* exception; otherwise the row is pushed and the cursor advanced
LoopIter ==
  /\ pc = "loop"
  /\ period <= MaxPeriod
  /\ LoopCond(currentDate, end)
  /\ IF currentDate.valid
     THEN /\ \E rv1 \in RandomValues, rv2 \in RandomValues :
               heap' = [heap EXCEPT ![rowsRef] =
                          Append(@, Row(deal, currentDate, period, monthsToAdd, rv1, rv2))]
          /\ currentDate' = addMonths(currentDate, monthsToAdd, tz)
          /\ period' = period + 1
          /\ UNCHANGED <<tz, pc, deal, end, monthsToAdd, rowsRef, appVars, hist,
                         aiVars>>
     ELSE /\ pc' = "error"
          /\ UNCHANGED <<tz, deal, end, currentDate, monthsToAdd, period,
                         rowsRef, heap, appVars, hist, aiVars>>

\* lines 54 and 99: the loop test fails and the rows are returned; lines
\* 684-709: the summary is built, the new deal is put in front of the list,
\* and the results page is shown; line 720: the page changed from the pricer
\* to the results, so ResultsPage is mounted with the new deal and result
Return ==
  /\ pc = "loop"
  /\ ~LoopCond(currentDate, end)
  /\ pc' = "done"
  /\ pricingResult' = Summary(deal, rows, rowsRef)
  /\ currentDeal' = NewDeal(deal, NewId(deals))
  /\ deals' = <<NewDeal(deal, NewId(deals))>> \o deals
  /\ currentPage' = "results"
  /\ views' = Append(views, Mount(NewDeal(deal, NewId(deals)),
                                  Summary(deal, rows, rowsRef)))
  /\ UNCHANGED <<tz, deal, end, currentDate, monthsToAdd, period, rowsRef,
                 heap, hist, aiRuns>>

\* the mutated navigation has a link to the results page
NavPagesWithResults == {"dashboard", "pricer", "results"}

\* the pages the navigation leads to
NavPages == {"dashboard", "pricer"}

Next ==
  \/ \E p \in NavPages : SetPage(p)
  \/ \E d \in Deals : Call(d)
  \/ LoopIter
  \/ Return

Spec == Init /\ [][Next]_vars

\* the deals of the termination runs: every start date, end date and
\* frequency string, malformed dates and unrecognised frequencies included
ShortDeals == ScheduleDeals \cup FloatingDeals

NextShort ==
  \/ \E p \in NavPages : SetPage(p)
  \/ \E d \in ShortDeals : Call(d)
  \/ LoopIter
  \/ Return

\* the loop is straight-line code with no suspension point: a call that has
\* started keeps running until it returns
FairSpec ==
  Init /\ [][NextShort]_vars /\ WF_vars(LoopIter) /\ WF_vars(Return)

NextPair ==
  \/ \E p \in NavPages : SetPage(p)
  \/ \E d \in PairDeals : Call(d)
  \/ \E d \in PairDeals : CallAgain(d)
  \/ LoopIter
  \/ Return

\* runs of two calls over the small deals
PairSpec == Init /\ [][NextPair]_vars

(***************************************************************************)
(* The analysis of a priced deal: ResultsPage and handleAiAnalyze          *)
(* (src/App.tsx:417-431, 500-518) and analyzeSwapDeal                      *)
(* (src/services/aiService.ts:6-42).  A run of handleAiAnalyze is          *)
(* [view, key, remote, settled, response, analysis, late]: the instance of *)
(* ResultsPage it was started from, whether analyzeSwapDeal found          *)
(* process.env.API_KEY set (aiService.ts:7) and whether it issued the      *)
(* remote request, and, once its await has resumed, how the remote request *)
(* ended (Null without one), the text the run stored and whether its       *)
(* instance had left the screen by then.                                   *)
(***************************************************************************)
\* the longest list of deals of the runs with several pricing requests
MaxDeals == 5

ApiKeyMissing == "API Key missing. Unable to perform AI analysis."

NoAnalysis == "No analysis generated."

FailedToGenerate ==
  "Failed to generate analysis. Please check your connection or API limits."

UnableToConnect == "Unable to connect to AI service."

\* the text the remote model writes about the deal of the prompt
AnalysisOf(d) == "Analysis of " \o d.id

\* the ways ai.models.generateContent can end for the prompt built from d: a
\* response with a text, a response without one, a failure
Responses(d) ==
  { [ok |-> TRUE, text |-> AnalysisOf(d)], [ok |-> TRUE, text |-> ""],
    [ok |-> FALSE, text |-> ""] }

\* aiService.ts:7-9: without a key the function returns before line 33
IssuesRequest(key) == key

\* the mutated function has no catch: a failed request rejects its promise
analyzeSwapDealRethrows(key, response) ==
  IF ~key THEN [rejected |-> FALSE, value |-> ApiKeyMissing]
  ELSE IF response.ok
  THEN [rejected |-> FALSE,
        value |-> IF response.text # "" THEN response.text ELSE NoAnalysis]
  ELSE [rejected |-> TRUE, value |-> ""]

\* aiService.ts:6-42: how the promise of analyzeSwapDeal settles, response
\* being the end of the remote request (not looked at without a key)
analyzeSwapDeal(key, response) ==
  IF ~key THEN [rejected |-> FALSE, value |-> ApiKeyMissing]
  ELSE IF response.ok
  THEN [rejected |-> FALSE,
        value |-> IF response.text # "" THEN response.text ELSE NoAnalysis]
  ELSE [rejected |-> FALSE, value |-> FailedToGenerate]

\* src/App.tsx:424-429: the text handleAiAnalyze stores for a settled promise
AnalysisStored(outcome) ==
  IF outcome.rejected THEN UnableToConnect ELSE outcome.value

\* the instance of ResultsPage on screen (src/App.tsx:720), 0 when none is
Shown ==
  IF currentPage = "results" /\ currentDeal # Null /\ pricingResult # Null
  THEN Len(views) ELSE 0

\* the mutated button is never disabled
RunAnalysisClickableAlways(v) == v.aiAnalysis = ""

\* src/App.tsx:500-503: the button is rendered while aiAnalysis is empty and
\* is disabled while loadingAi
RunAnalysisClickable(v) == v.aiAnalysis = "" /\ ~v.loadingAi

\* the mutated setters act on the instance on screen
SetterTargetOnScreen(run) == Len(views)

\* setAiAnalysis and setLoadingAi of a run belong to the instance that
\* rendered the handler
SetterTarget(run) == run.view

\* a click on Run Analysis: src/App.tsx:422-425 up to the await, and
\* aiService.ts:7-33 up to the remote request; key is whether the call finds
\* process.env.API_KEY set
RunAnalysis ==
  /\ pc # "loop"
  /\ ~MicrotaskPending
  /\ Shown # 0
  /\ RunAnalysisClickable(views[Shown])
  /\ views' = [views EXCEPT ![Shown].loadingAi = TRUE]
  /\ \E key \in BOOLEAN :
       aiRuns' = Append(aiRuns, [view |-> Shown, key |-> key,
                                 remote |-> IssuesRequest(key),
                                 settled |-> FALSE, response |-> Null,
                                 analysis |-> "", late |-> FALSE])
  /\ UNCHANGED <<tz, pc, deal, end, currentDate, monthsToAdd, period, rowsRef,
                 heap, appVars, hist>>

\* the await of run i resumes with the end of its request, one of the
\* responses to the prompt built from the deal of its instance:
\* aiService.ts:37-41 and src/App.tsx:426-430
Settle(i) ==
  /\ pc # "loop"
  /\ i \in 1..Len(aiRuns)
  /\ ~aiRuns[i].settled
  /\ aiRuns[i].remote => ~MicrotaskPending
  /\ \E response \in Responses(views[aiRuns[i].view].deal) :
       /\ aiRuns' = [aiRuns EXCEPT
                       ![i].settled = TRUE,
                       ![i].response = IF aiRuns[i].remote THEN response ELSE Null,
                       ![i].analysis =
                          AnalysisStored(analyzeSwapDeal(aiRuns[i].key, response)),
                       ![i].late = (Shown # aiRuns[i].view)]
       /\ views' = [views EXCEPT
                      ![SetterTarget(aiRuns[i])].aiAnalysis =
                         AnalysisStored(analyzeSwapDeal(aiRuns[i].key, response)),
                      ![SetterTarget(aiRuns[i])].loadingAi = FALSE]
  /\ UNCHANGED <<tz, pc, deal, end, currentDate, monthsToAdd, period, rowsRef,
                 heap, appVars, hist>>

\* a pricing request after the first one
CallLater(d) ==
  /\ pc = "done"
  /\ ~MicrotaskPending
  /\ currentPage = "pricer"
  /\ Len(deals) < MaxDeals
  /\ Enter(d)
  /\ UNCHANGED hist

\* the deals of the runs with several pricing requests: one row with a
\* Floating leg, two rows with Fixed legs, and no row
AppDeals ==
  { Deal(Date(2024, 10, 1), Date(2025, 1, 1),
         Leg("BRL", 1000000, 125, "Floating", "Quarterly", "Actual/365"),
         Leg("USD", 185000, 375, "Fixed", "Semi-Annual", "30/360")),
    Deal(Date(2024, 10, 1), Date(2025, 4, 1),
         Leg("EUR", 2500000, 50, "Fixed", "Quarterly", "Actual/360"),
         Leg("JPY", 35000000, 10, "Fixed", "Annual", "Actual/365")),
    Deal(Date(2024, 10, 1), Date(2024, 10, 31),
         StdLeg("BRL", "Quarterly"), StdLeg("USD", "Quarterly")) }

\* the runs of handleAiAnalyze there can be: one for each priced deal
RunIds == 1..(MaxDeals - Len(MockDeals))

NextApp ==
  \/ \E p \in NavPages : SetPage(p)
  \/ \E d \in AppDeals : Call(d)
  \/ \E d \in AppDeals : CallLater(d)
  \/ LoopIter
  \/ Return
  \/ RunAnalysis
  \/ \E i \in RunIds : Settle(i)

\* any sequence of navigation clicks, pricing requests, Run Analysis clicks
\* and ends of remote requests
AppSpec == Init /\ [][NextApp]_vars

(***************************************************************************)
(* Calendar notions the properties are stated in.                          *)
(***************************************************************************)
DateKey(s) == s.y * 10000 + s.m * 100 + s.d

DateLE(a, b) == DateKey(a) <= DateKey(b)

DateLT(a, b) == DateKey(a) < DateKey(b)

MonthIndex(s) == s.y * 12 + (s.m - 1)

\* the date k calendar months after s: same day of month, or the last day of
\* the target month when it has no such day
PlusMonths(s, k) ==
  LET mi == MonthIndex(s) + k
      y  == mi \div 12
      m  == (mi % 12) + 1
  IN  [y |-> y, m |-> m,
       d |-> IF s.d <= DaysInMonth(y, m) THEN s.d ELSE DaysInMonth(y, m)]

\* whole calendar months from s to e
MonthsBetween(s, e) ==
  MonthIndex(e) - MonthIndex(s) - (IF e.d < s.d THEN 1 ELSE 0)

WellFormed(d) == IsCalendarDate(d.startDate) /\ IsCalendarDate(d.endDate)

FixedFixed(d) == d.leg1.type = "Fixed" /\ d.leg2.type = "Fixed"

Returned == pc = "done"

\* the date before row i: the previous row's date, or startDate for row 1
DateBefore(i) == IF i = 1 THEN deal.startDate ELSE rows[i - 1].date

(***************************************************************************)
(* Properties.                                                             *)
(***************************************************************************)
\* C1: for a deal whose dates are at least one period apart, the number of
\* rows returned is floor(monthsBetween(startDate, endDate) / stepMonths).
C1_RowCount ==
  (Returned /\ WellFormed(deal)
     /\ MonthsBetween(deal.startDate, deal.endDate) >= StepMonths(deal))
  => Len(rows) = MonthsBetween(deal.startDate, deal.endDate) \div StepMonths(deal)

\* C2: every row's date is strictly after the previous row's date and exactly
\* stepMonths calendar months after it, the first row being stepMonths months
\* after startDate.
C2_DatesAdvanceByStep ==
  Returned =>
    \A i \in 1..Len(rows) :
      /\ DateLT(DateBefore(i), rows[i].date)
      /\ rows[i].date = PlusMonths(DateBefore(i), StepMonths(deal))

\* C3: the date of every row, the last one included, is on or before endDate.
C3_RowsOnOrBeforeEnd ==
  \A i \in 1..Len(rows) : DateLE(rows[i].date, deal.endDate)

C3_Witness ==
  /\ Returned
  /\ Len(rows) >= 2
  /\ rows[Len(rows)].date = deal.endDate

\* C4: when endDate is earlier than startDate plus stepMonths months, no row
\* is returned.
C4_ZeroRowsWhenShort ==
  (Returned /\ WellFormed(deal)
     /\ DateLT(deal.endDate, PlusMonths(deal.startDate, StepMonths(deal))))
  => rows = <<>>

\* C5: when startDate plus stepMonths calendar months is on or before endDate,
\* at least one row is returned.
C5_NonEmpty ==
  (Returned /\ WellFormed(deal)
     /\ DateLE(PlusMonths(deal.startDate, StepMonths(deal)), deal.endDate))
  => Len(rows) >= 1

\* the deal of the scenario: 2024-10-01 to 2025-04-01, Quarterly, both legs
\* Fixed at 4% on 1,000,000
IsScenarioDeal(d) ==
  /\ d.startDate = Date(2024, 10, 1)
  /\ d.endDate = Date(2025, 4, 1)
  /\ d.leg1.frequency = "Quarterly"
  /\ FixedFixed(d)
  /\ d.leg1.notional = 1000000 /\ d.leg1.rate = 400
  /\ d.leg2.notional = 1000000 /\ d.leg2.rate = 400

\* C6: in every time zone the scenario deal returns exactly two rows, dated
\* 2025-01-01 and 2025-04-01, each with leg1Flow 10,000 and leg2Flow -10,000.
C6_Scenario ==
  (Returned /\ IsScenarioDeal(deal)) =>
    /\ Len(rows) = 2
    /\ rows[1].date = Date(2025, 1, 1)
    /\ rows[2].date = Date(2025, 4, 1)
    /\ \A i \in 1..2 : rows[i].leg1Flow = 1000000 /\ rows[i].leg2Flow = -1000000

\* C7: two calls with the same Fixed/Fixed deal return the same rows.
C7_Deterministic ==
  (Returned /\ hist # <<>> /\ hist[1].deal = deal /\ FixedFixed(deal))
  => rows = hist[1].rows

C7_Witness ==
  /\ Returned
  /\ hist # <<>>
  /\ hist[1].deal = deal
  /\ FixedFixed(deal)
  /\ Len(rows) = 2

\* C8 as stated: every row's discountFactor is greater than 0 and at most 1.
C8_DiscountFactorPositive ==
  \A i \in 1..Len(rows) :
    rows[i].discountFactor > 0 /\ rows[i].discountFactor <= DFDecimals

\* C8 amended: every row's discountFactor is at least 0 and at most 1; it is
\* greater than 0 in the rows up to 3030 months (252.5 years) after the start
\* and is 0 in the later rows.
C8_DiscountFactorRange ==
  \A i \in 1..Len(rows) :
    /\ rows[i].discountFactor >= 0
    /\ rows[i].discountFactor <= DFDecimals
    /\ (rows[i].discountFactor > 0) = (i * monthsToAdd <= 3030)

\* an annual schedule whose row 252 is emitted as 0.0001 and row 253 as 0.0000
C8_Witness ==
  /\ Returned
  /\ monthsToAdd = 12
  /\ Len(rows) >= 253
  /\ rows[252].discountFactor = 1
  /\ rows[253].discountFactor = 0

\* the terms the schedule may not depend on are blanked
SchedulingTerms(d) ==
  [d EXCEPT !.leg2.frequency = "", !.leg1.convention = "", !.leg2.convention = ""]

\* C9: two deals that differ only in leg 2's frequency or in a convention
\* return the same number of rows with the same dates and discount factors,
\* and the same rows when both legs are Fixed.
C9_Leg1DrivesSchedule ==
  (Returned /\ hist # <<>> /\ hist[1].deal # deal
     /\ SchedulingTerms(hist[1].deal) = SchedulingTerms(deal))
  => /\ Len(rows) = Len(hist[1].rows)
     /\ \A i \in 1..Len(rows) :
          /\ rows[i].date = hist[1].rows[i].date
          /\ rows[i].discountFactor = hist[1].rows[i].discountFactor
     /\ (FixedFixed(deal) => rows = hist[1].rows)

C9_Witness ==
  /\ Returned
  /\ hist # <<>>
  /\ SchedulingTerms(hist[1].deal) = SchedulingTerms(deal)
  /\ hist[1].deal.leg2.frequency # deal.leg2.frequency
  /\ hist[1].deal.leg1.convention # deal.leg1.convention
  /\ hist[1].deal.leg2.convention # deal.leg2.convention
  /\ Len(rows) = 2

\* C10: each pass of the loop moves the cursor strictly forward, and every
\* call that has entered the loop returns.
C10_Terminates ==
  /\ [][(pc = "loop" /\ period' = period + 1)
          => (currentDate'.valid /\ currentDate'.t > currentDate.t)]_vars
  /\ (pc = "loop") ~> (pc = "done")

C10_Witness ==
  /\ Returned
  /\ deal.leg1.frequency \in OtherFrequencies
  /\ Len(rows) >= 2

\* C11: no call ends with an exception, and a call with a malformed startDate
\* or endDate returns the empty row sequence.
C11_NoErrorOutcome ==
  /\ pc # "error"
  /\ (Returned /\ ~WellFormed(deal)) => rows = <<>>

C11_Witness ==
  /\ Returned
  /\ ~IsCalendarDate(deal.startDate)
  /\ IsCalendarDate(deal.endDate)
  /\ rows = <<>>

HasNaN(leg) == IsNaN(leg.notional) \/ IsNaN(leg.rate)

\* C12 as stated: when a leg's notional or rate is NaN, no error is raised,
\* every figure of every row is NaN, and so are the three sums of the summary.
C12_NaNEverywhere ==
  /\ (HasNaN(deal.leg1) \/ HasNaN(deal.leg2)) => pc # "error"
  /\ (Returned /\ (HasNaN(deal.leg1) \/ HasNaN(deal.leg2))) =>
       /\ \A i \in 1..Len(rows) :
            /\ IsNaN(rows[i].leg1Flow)
            /\ IsNaN(rows[i].leg2Flow)
            /\ IsNaN(rows[i].discountFactor)
            /\ IsNaN(rows[i].presentValue)
       /\ IsNaN(pricingResult.npvTotal)
       /\ IsNaN(pricingResult.leg1Npv)
       /\ IsNaN(pricingResult.leg2Npv)

\* the flow and the summed flow of a leg are NaN exactly when the leg has a
\* NaN notional or rate (the sum only when there is a row)
NaNFollowsLeg(leg, flows, total) ==
  /\ \A i \in 1..Len(flows) : IsNaN(flows[i]) = HasNaN(leg)
  /\ IsNaN(total) = (HasNaN(leg) /\ flows # <<>>)

\* C12 amended: when a leg's notional or rate is NaN, no error is raised; in
\* every row that leg's flow and presentValue are NaN, while discountFactor
\* is a number and the other leg's flow is a number unless that leg has a
\* NaN too; when there is a row, npvTotal and that leg's summed flow are NaN;
\* with no row the three sums are 0.
C12_NaNFollowsItsLeg ==
  /\ (HasNaN(deal.leg1) \/ HasNaN(deal.leg2)) => pc # "error"
  /\ (Returned /\ (HasNaN(deal.leg1) \/ HasNaN(deal.leg2))) =>
       /\ \A i \in 1..Len(rows) :
            /\ IsNaN(rows[i].presentValue)
            /\ ~IsNaN(rows[i].discountFactor)
       /\ NaNFollowsLeg(deal.leg1, [i \in 1..Len(rows) |-> rows[i].leg1Flow],
                        pricingResult.leg1Npv)
       /\ NaNFollowsLeg(deal.leg2, [i \in 1..Len(rows) |-> rows[i].leg2Flow],
                        pricingResult.leg2Npv)
       /\ IsNaN(pricingResult.npvTotal) = (rows # <<>>)
       /\ rows = <<>> =>
            /\ pricingResult.npvTotal = 0
            /\ pricingResult.leg1Npv = 0
            /\ pricingResult.leg2Npv = 0

C12_Witness ==
  /\ Returned
  /\ HasNaN(deal.leg1)
  /\ ~HasNaN(deal.leg2)
  /\ Len(rows) = 2
  /\ IsNaN(rows[2].leg1Flow)
  /\ rows[2].leg2Flow = -173438
  /\ rows[2].discountFactor = 9806
  /\ IsNaN(pricingResult.npvTotal)
  /\ pricingResult.leg2Npv = -346876

\* the sum of xs[from..to], term by term from the left
RECURSIVE LeftFold(_, _, _)
LeftFold(xs, from, to) ==
  IF to < from THEN 0 ELSE Plus(LeftFold(xs, from, to - 1), xs[to])

\* the sum of xs[1..n], in blocks of 64 terms
RECURSIVE SumOfFirst(_, _)
SumOfFirst(xs, n) ==
  IF n <= 64 THEN LeftFold(xs, 1, n)
  ELSE Plus(SumOfFirst(xs, n - 64), LeftFold(xs, n - 63, n))

\* the sum of one field of all the rows
SumOfRows(field) == SumOfFirst([i \in 1..Len(rows) |-> rows[i][field]], Len(rows))

\* |leg1.rate - leg2.rate| x 100, the rates being in hundredths
RateGap(d) ==
  IF IsNaN(d.leg1.rate) \/ IsNaN(d.leg2.rate) THEN NaN
  ELSE IF d.leg1.rate >= d.leg2.rate THEN d.leg1.rate - d.leg2.rate
  ELSE d.leg2.rate - d.leg1.rate

\* C13: the summary holds the rows it was built from; npvTotal is the sum of
\* the rows' presentValue, leg1Npv and leg2Npv are the undiscounted sums of
\* leg1Flow and leg2Flow, spread is |leg1.rate - leg2.rate| x 100, principal
\* is leg2.notional, and the three sums are 0 when there is no row.
C13_Summary ==
  Returned =>
    /\ pricingResult.cashflows = rowsRef
    /\ pricingResult.npvTotal = SumOfRows("presentValue")
    /\ pricingResult.leg1Npv = SumOfRows("leg1Flow")
    /\ pricingResult.leg2Npv = SumOfRows("leg2Flow")
    /\ pricingResult.spread = RateGap(deal)
    /\ pricingResult.principal = deal.leg2.notional
    /\ rows = <<>> =>
         /\ pricingResult.npvTotal = 0
         /\ pricingResult.leg1Npv = 0
         /\ pricingResult.leg2Npv = 0

C13_Witness ==
  /\ Returned
  /\ Len(rows) = 2
  /\ pricingResult.leg1Npv = 625000
  /\ pricingResult.leg2Npv = -346876
  /\ pricingResult.npvTotal > 0
  /\ pricingResult.npvTotal < pricingResult.leg1Npv
  /\ pricingResult.spread = 250
  /\ pricingResult.principal = 185000

\* C14: a running call leaves its input deal unchanged; no step changes an
\* array that a call has returned; a later call returns a new array, and the
\* rows held by the earlier result stay what they were when it was returned.
C14_NoMutation ==
  /\ [][pc = "loop" => deal' = deal]_vars
  /\ [][\A r \in 1..Len(heap) :
          (r # rowsRef \/ pc = "done") => heap'[r] = heap[r]]_vars
  /\ [](hist # <<>> =>
          /\ heap[hist[1].result.cashflows] = hist[1].rows
          /\ rowsRef # hist[1].result.cashflows
          /\ Returned => pricingResult.cashflows # hist[1].result.cashflows)

C14_Witness ==
  /\ Returned
  /\ hist # <<>>
  /\ Len(hist[1].rows) = 2
  /\ Len(rows) = 2
  /\ rows # hist[1].rows
  /\ heap[hist[1].result.cashflows] = hist[1].rows
  /\ heap[pricingResult.cashflows] = rows

\* the rates a leg may take in a row, in hundredths of a percentage point
RatesOf(leg) ==
  IF leg.type = "Floating" THEN {leg.rate + j : j \in -25..25} ELSE {leg.rate}

\* the raw period interest notional x (rate / 100) x (months / 12) is, in
\* cents, notional x rate / CentsDen(months)
CentsDen(months) == InterestDen \div months

\* flow is exactly the raw period interest, for a rate the leg may take
FlowIsRaw(leg, flow, months) ==
  \E r \in RatesOf(leg) : flow * CentsDen(months) = leg.notional * r

\* flow is within half a cent of the raw period interest
FlowIsRounded(leg, flow, months) ==
  \E r \in RatesOf(leg) :
    2 * Abs(flow * CentsDen(months) - leg.notional * r) <= CentsDen(months)

PositiveFixed(leg) ==
  ~HasNaN(leg) /\ leg.type = "Fixed" /\ leg.notional > 0 /\ leg.rate > 0

\* C15 as stated: leg1Flow is leg 1's raw period interest and leg2Flow the
\* negative of leg 2's, untransformed; for a Fixed leg with positive notional
\* and rate leg1Flow is positive and leg2Flow negative.
C15_FlowsAreRawInterest ==
  \A i \in 1..Len(rows) :
    /\ ~HasNaN(deal.leg1) =>
         FlowIsRaw(deal.leg1, rows[i].leg1Flow, monthsToAdd)
    /\ ~HasNaN(deal.leg2) =>
         FlowIsRaw(deal.leg2, -rows[i].leg2Flow, monthsToAdd)
    /\ PositiveFixed(deal.leg1) => rows[i].leg1Flow > 0
    /\ PositiveFixed(deal.leg2) => rows[i].leg2Flow < 0

\* C15 amended: leg1Flow is leg 1's raw period interest rounded to the cent
\* and leg2Flow the negative of leg 2's, rounded to the cent; for a Fixed leg
\* with positive notional and rate leg1Flow is at least 0 and leg2Flow at
\* most 0, and they are not 0 when the raw interest is above half a cent.
C15_FlowsAreRoundedInterest ==
  \A i \in 1..Len(rows) :
    /\ ~HasNaN(deal.leg1) =>
         FlowIsRounded(deal.leg1, rows[i].leg1Flow, monthsToAdd)
    /\ ~HasNaN(deal.leg2) =>
         FlowIsRounded(deal.leg2, -rows[i].leg2Flow, monthsToAdd)
    /\ PositiveFixed(deal.leg1) =>
         /\ rows[i].leg1Flow >= 0
         /\ 2 * deal.leg1.notional * deal.leg1.rate > CentsDen(monthsToAdd)
              => rows[i].leg1Flow > 0
    /\ PositiveFixed(deal.leg2) =>
         /\ rows[i].leg2Flow <= 0
         /\ 2 * deal.leg2.notional * deal.leg2.rate > CentsDen(monthsToAdd)
              => rows[i].leg2Flow < 0

\* a Fixed leg 1 whose interest of 0.000025 is emitted as 0 and a Fixed leg 2
\* whose interest of 0.1375 is emitted as -0.14
C15_Witness ==
  /\ Returned
  /\ PositiveFixed(deal.leg1)
  /\ PositiveFixed(deal.leg2)
  /\ Len(rows) = 2
  /\ rows[2].leg1Flow = 0
  /\ rows[2].leg2Flow = -14

\* pv cents is within half a cent of (n1 / den) - (n2 / den) x f / DFScale,
\* where n2 x f = q x DFScale + r: with k = n1 - q - pv x den the difference
\* is (k - r / DFScale) / den
WithinHalfCent(pv, n1, n2, den, f) ==
  LET x == MulScaleQR(n2, f)
      k == n1 - x.q - pv * den
      h == den \div 2
  IN  /\ k <= h
      /\ k + h >= 1 \/ (k + h = 0 /\ x.r = 0)

\* row i is built from rates the legs may take: its flows are the rounded
\* interest amounts and its presentValue the rounded |leg 1 interest| -
\* |leg 2 interest| x 1 / 1.04^(i x stepMonths / 12), with the interest and
\* the discount factor not rounded
RowFromUnroundedTerms(i) ==
  \E r1 \in RatesOf(deal.leg1), r2 \in RatesOf(deal.leg2) :
    /\ 2 * Abs(rows[i].leg1Flow * CentsDen(monthsToAdd) - deal.leg1.notional * r1)
         <= CentsDen(monthsToAdd)
    /\ 2 * Abs(rows[i].leg2Flow * CentsDen(monthsToAdd) + deal.leg2.notional * r2)
         <= CentsDen(monthsToAdd)
    /\ WithinHalfCent(rows[i].presentValue,
                      Abs(deal.leg1.notional * r1), Abs(deal.leg2.notional * r2),
                      CentsDen(monthsToAdd), discountFactor(i, monthsToAdd))

\* C16: in every row presentValue is |leg 1 interest| - |leg 2 interest| x
\* discount factor rounded to 2 decimals: leg 1 enters undiscounted and
\* unconverted, only leg 2 is discounted.  The row pushed last is checked in
\* every state, and no step of a call changes a row pushed before.
C16_PresentValue ==
  /\ [][rowsRef' = rowsRef => \A i \in 1..Len(rows) : rows'[i] = rows[i]]_vars
  /\ []((rows # <<>> /\ ~HasNaN(deal.leg1) /\ ~HasNaN(deal.leg2))
          => RowFromUnroundedTerms(Len(rows)))

\* BRL 1,000,000 at 1.25% against USD 185,000 at 3.75%, second quarter:
\* 3125 - 1734.375 x 0.980581 = 1424.30
C16_Witness ==
  /\ Returned
  /\ FixedFixed(deal)
  /\ deal.leg1.currency = "BRL"
  /\ deal.leg2.currency = "USD"
  /\ Len(rows) = 2
  /\ rows[2].leg1Flow = 312500
  /\ rows[2].leg2Flow = -173438
  /\ rows[2].presentValue = 142431

\* 1 / 1.04^(m / 12) rounded to 4 decimals, in units of 1/10000, for m = 1
\* to 360 months
ReferenceFactor ==
  <<
     9967, 9935, 9902, 9870, 9838, 9806, 9774, 9742, 9710, 9678, 9647, 9615,
     9584, 9553, 9522, 9490, 9460, 9429, 9398, 9367, 9337, 9306, 9276, 9246,
     9215, 9185, 9155, 9125, 9096, 9066, 9036, 9007, 8978, 8948, 8919, 8890,
     8861, 8832, 8803, 8774, 8746, 8717, 8689, 8661, 8632, 8604, 8576, 8548,
     8520, 8492, 8465, 8437, 8409, 8382, 8355, 8327, 8300, 8273, 8246, 8219,
     8192, 8166, 8139, 8113, 8086, 8060, 8033, 8007, 7981, 7955, 7929, 7903,
     7877, 7852, 7826, 7800, 7775, 7750, 7724, 7699, 7674, 7649, 7624, 7599,
     7574, 7550, 7525, 7500, 7476, 7452, 7427, 7403, 7379, 7355, 7331, 7307,
     7283, 7259, 7236, 7212, 7188, 7165, 7142, 7118, 7095, 7072, 7049, 7026,
     7003, 6980, 6957, 6935, 6912, 6889, 6867, 6845, 6822, 6800, 6778, 6756,
     6734, 6712, 6690, 6668, 6646, 6624, 6603, 6581, 6560, 6538, 6517, 6496,
     6475, 6453, 6432, 6411, 6391, 6370, 6349, 6328, 6308, 6287, 6266, 6246,
     6226, 6205, 6185, 6165, 6145, 6125, 6105, 6085, 6065, 6045, 6025, 6006,
     5986, 5967, 5947, 5928, 5908, 5889, 5870, 5851, 5832, 5813, 5794, 5775,
     5756, 5737, 5718, 5700, 5681, 5663, 5644, 5626, 5607, 5589, 5571, 5553,
     5535, 5516, 5498, 5481, 5463, 5445, 5427, 5409, 5392, 5374, 5357, 5339,
     5322, 5304, 5287, 5270, 5253, 5235, 5218, 5201, 5184, 5167, 5151, 5134,
     5117, 5100, 5084, 5067, 5051, 5034, 5018, 5001, 4985, 4969, 4952, 4936,
     4920, 4904, 4888, 4872, 4856, 4840, 4825, 4809, 4793, 4778, 4762, 4746,
     4731, 4715, 4700, 4685, 4669, 4654, 4639, 4624, 4609, 4594, 4579, 4564,
     4549, 4534, 4519, 4505, 4490, 4475, 4461, 4446, 4432, 4417, 4403, 4388,
     4374, 4360, 4346, 4331, 4317, 4303, 4289, 4275, 4261, 4247, 4233, 4220,
     4206, 4192, 4178, 4165, 4151, 4138, 4124, 4111, 4097, 4084, 4071, 4057,
     4044, 4031, 4018, 4005, 3991, 3978, 3965, 3953, 3940, 3927, 3914, 3901,
     3888, 3876, 3863, 3851, 3838, 3825, 3813, 3801, 3788, 3776, 3763, 3751,
     3739, 3727, 3715, 3702, 3690, 3678, 3666, 3654, 3642, 3631, 3619, 3607,
     3595, 3583, 3572, 3560, 3548, 3537, 3525, 3514, 3502, 3491, 3480, 3468,
     3457, 3446, 3434, 3423, 3412, 3401, 3390, 3379, 3368, 3357, 3346, 3335,
     3324, 3313, 3302, 3291, 3281, 3270, 3259, 3249, 3238, 3228, 3217, 3207,
     3196, 3186, 3175, 3165, 3155, 3144, 3134, 3124, 3114, 3103, 3093, 3083 >>

\* the rows of one year before row i: 12 / stepMonths rows
YearBefore(i) == i - (12 \div monthsToAdd)

\* C17 as stated: the discountFactor of row k is 1 / 1.04^(k x stepMonths /
\* 12) rounded to 4 decimals whatever the other terms of the deal, it is
\* non-increasing along the rows, and it is 0.9906 for period 1 with
\* stepMonths = 3.
C17_FirstQuarterIs9906 ==
  \A i \in 1..Len(rows) :
    /\ i * monthsToAdd <= 360 =>
         rows[i].discountFactor = ReferenceFactor[i * monthsToAdd]
    /\ i > 1 => rows[i].discountFactor <= rows[i - 1].discountFactor
    /\ (i = 1 /\ monthsToAdd = 3) => rows[i].discountFactor = 9906

\* C17 amended: the same with 0.9902 for period 1 with stepMonths = 3.  The
\* rounded value is compared with the reference for the first 30 years; for
\* later rows 1.04 x discountFactor is compared with the discountFactor of a
\* year before, to the precision the rounding leaves (25.5 / 260000).
C17_DiscountFactor ==
  \A i \in 1..Len(rows) :
    /\ i * monthsToAdd <= 360 =>
         rows[i].discountFactor = ReferenceFactor[i * monthsToAdd]
    /\ i * monthsToAdd > 12 =>
         /\ 26 * rows[i].discountFactor - 25 * rows[YearBefore(i)].discountFactor <= 25
         /\ 25 * rows[YearBefore(i)].discountFactor - 26 * rows[i].discountFactor <= 25
    /\ i > 1 => rows[i].discountFactor <= rows[i - 1].discountFactor
    /\ (i = 1 /\ monthsToAdd = 3) => rows[i].discountFactor = 9902

C17_Witness ==
  /\ Returned
  /\ monthsToAdd = 3
  /\ deal.valueDate = Date(2020, 1, 1)
  /\ deal.leg1.currency = "EUR"
  /\ Len(rows) = 2
  /\ rows[1].discountFactor = 9902
  /\ rows[2].discountFactor = 9806

\* C18: the step of a call is 1 for Monthly, 3 for Quarterly, 6 for
\* Semi-Annual and 12 for Annual, and 3 for every other string, the empty
\* string and a differently-cased name included; it is one of 1, 3, 6, 12.
C18_FrequencyMonths ==
  pc # "idle" =>
    /\ deal.leg1.frequency = "Monthly" => monthsToAdd = 1
    /\ deal.leg1.frequency = "Quarterly" => monthsToAdd = 3
    /\ deal.leg1.frequency = "Semi-Annual" => monthsToAdd = 6
    /\ deal.leg1.frequency = "Annual" => monthsToAdd = 12
    /\ deal.leg1.frequency \notin Frequencies => monthsToAdd = 3
    /\ monthsToAdd \in {1, 3, 6, 12}
    /\ monthsToAdd >= 1

C18_Witness ==
  /\ Returned
  /\ deal.leg1.frequency = "monthly"
  /\ monthsToAdd = 3
  /\ Len(rows) >= 2

\* the flows of a leg over the rows (leg 2's with the sign of its interest)
LegFlows(n) ==
  [i \in 1..Len(rows) |->
     IF n = 1 THEN rows[i].leg1Flow ELSE Neg(rows[i].leg2Flow)]

\* a Fixed leg pays the interest at its stated rate, the same in every row
FixedAtStatedRate(leg, flows) ==
  \A i \in 1..Len(flows) :
    /\ 2 * Abs(flows[i] * CentsDen(monthsToAdd) - leg.notional * leg.rate)
         <= CentsDen(monthsToAdd)
    /\ flows[i] = flows[1]

\* a Floating leg pays, in every row, the interest at a rate within 25
\* hundredths of a percentage point of its stated rate
FloatingNearStatedRate(leg, flows) ==
  \A i \in 1..Len(flows) :
    2 * Abs(flows[i] * CentsDen(monthsToAdd) - leg.notional * leg.rate)
      <= 50 * Abs(leg.notional) + CentsDen(monthsToAdd)

LegRateRespected(leg, flows) ==
  HasNaN(leg) \/ IF leg.type = "Fixed" THEN FixedAtStatedRate(leg, flows)
                                       ELSE FloatingNearStatedRate(leg, flows)

\* C19: in every row a Fixed leg's rate is its stated rate, so its flow is
\* the same in every row, and a Floating leg's rate is within 0.25
\* percentage points of its stated rate, whatever the row.
C19_EffectiveRate ==
  /\ LegRateRespected(deal.leg1, LegFlows(1))
  /\ LegRateRespected(deal.leg2, LegFlows(2))

\* two Floating legs whose draws differ from one period to the next and from
\* one leg to the other: leg 1 at 1.00% then 1.49%, leg 2 at 0.34% then -0.15%
C19_Witness ==
  /\ Returned
  /\ deal.leg1.type = "Floating"
  /\ deal.leg2.type = "Floating"
  /\ ~HasNaN(deal.leg1) /\ ~HasNaN(deal.leg2)
  /\ monthsToAdd = 3
  /\ Len(rows) = 2
  /\ rows[1].leg1Flow = 250000
  /\ rows[2].leg1Flow = 372500
  /\ rows[1].leg2Flow = -15725
  /\ rows[2].leg2Flow = 6938

\* |leg1Flow| - |leg2Flow| x discountFactor rounded to 2 decimals, from the
\* fields of the row: |leg2Flow| x discountFactor = q + r / 10000 cents
Recomputed(row) ==
  LET x == MulDivQR(Abs(row.leg2Flow), row.discountFactor, DFDecimals)
      a == Abs(row.leg1Flow) - x.q
  IN  IF a > 0 \/ (a = 0 /\ x.r = 0)
      THEN a - (IF 2 * x.r > DFDecimals THEN 1 ELSE 0)
      ELSE a - (IF 2 * x.r >= DFDecimals THEN 1 ELSE 0)

\* C20 as stated: presentValue is the value recomputed from the row's own
\* leg1Flow, leg2Flow and discountFactor.
C20_SelfConsistent ==
  \A i \in 1..Len(rows) :
    ~IsNaN(rows[i].presentValue) => rows[i].presentValue = Recomputed(rows[i])

\* C20 amended: presentValue is within 0.02 + 0.00005 x |leg2Flow| of the
\* value recomputed from the row's own fields (in cents: 2 + |leg2Flow| /
\* 20000).
C20_NearlySelfConsistent ==
  \A i \in 1..Len(rows) :
    ~IsNaN(rows[i].presentValue) =>
      20000 * Abs(rows[i].presentValue - Recomputed(rows[i]))
        <= 40000 + Abs(rows[i].leg2Flow)

\* 3125.00 - 1734.38 x 0.9902 = 1407.62, emitted as 1407.55
C20_Witness ==
  /\ Returned
  /\ Len(rows) = 2
  /\ rows[1].leg1Flow = 312500
  /\ rows[1].leg2Flow = -173438
  /\ rows[1].discountFactor = 9902
  /\ rows[1].presentValue = 140755
  /\ Recomputed(rows[1]) = 140762

(***************************************************************************)
(* Properties of the application state and of the analysis.                *)
(***************************************************************************)
\* the cursor of the generator before its i-th pass for the terms d
RECURSIVE CursorOf(_, _)
CursorOf(d, i) ==
  IF i = 1 THEN addMonths(ParseDate(d.startDate), StepMonths(d), tz)
  ELSE addMonths(CursorOf(d, i - 1), StepMonths(d), tz)

\* rs is a row sequence the generator returns for the terms d: it stops
\* where the schedule of d stops, and row i is the row of period i of d for
\* some draws of the random numbers
GeneratedFrom(d, rs) ==
  /\ \A i \in 1..Len(rs) :
       /\ LoopCond(CursorOf(d, i), ParseDate(d.endDate))
       /\ \E rv1 \in RandomValues, rv2 \in RandomValues :
            rs[i] = Row(d, CursorOf(d, i), i, StepMonths(d), rv1, rv2)
  /\ ~LoopCond(CursorOf(d, Len(rs) + 1), ParseDate(d.endDate))

\* C21: whenever the results page is the current page, currentDeal and
\* pricingResult are not null, currentDeal is the first deal of the list and
\* is Active, and pricingResult.cashflows is the row sequence generated from
\* currentDeal's terms; only the end of handleCalculate leads to the results
\* page.
C21_ResultsPageState ==
  /\ [](currentPage = "results" =>
          /\ currentDeal # Null
          /\ pricingResult # Null
          /\ deals # <<>>
          /\ currentDeal = deals[1]
          /\ currentDeal.status = "Active"
          /\ pricingResult.cashflows \in 1..Len(heap)
          /\ GeneratedFrom(currentDeal, heap[pricingResult.cashflows]))
  /\ [][(currentPage # "results" /\ currentPage' = "results")
          => (pc = "loop" /\ pc' = "done" /\ currentPage = "pricer")]_vars

\* the second priced deal is shown, with the two rows of its Fixed legs,
\* after the first one, with a row for its Floating leg, was shown and left
C21_Witness ==
  /\ currentPage = "results"
  /\ Len(views) = 2
  /\ currentDeal.id = "SWP-005"
  /\ currentDeal.leg1.currency = "EUR"
  /\ Len(heap[pricingResult.cashflows]) = 2
  /\ views[1].deal.leg1.type = "Floating"
  /\ Len(heap[views[1].result.cashflows]) = 1
  /\ pricingResult.cashflows # views[1].result.cashflows

\* 'SWP-' followed by n zero-padded to 3 digits
IdNumbered(n) ==
  IF n < 10 THEN "SWP-00" \o ToString(n)
  ELSE IF n < 100 THEN "SWP-0" \o ToString(n)
  ELSE "SWP-" \o ToString(n)

\* C22: the list of deals only grows: a step that changes it puts one deal
\* in front and keeps the others in place, and every pricing request that
\* ends does so; the new deal's id is 'SWP-' followed by the number of deals
\* before the request plus 1, zero-padded to 3 digits; the ids in the list
\* are pairwise distinct.
C22_DealsOnlyGrow ==
  /\ [][deals' # deals =>
          /\ Len(deals') = Len(deals) + 1
          /\ \A i \in 1..Len(deals) : deals'[i + 1] = deals[i]
          /\ deals'[1].id = IdNumbered(Len(deals) + 1)]_vars
  /\ [][(pc = "loop" /\ pc' = "done") => Len(deals') = Len(deals) + 1]_vars
  /\ [](\A i \in 1..Len(deals) : \A j \in 1..Len(deals) :
          i # j => deals[i].id # deals[j].id)

\* two deals were priced, and the three initial deals are behind them
C22_Witness ==
  /\ Len(deals) = 5
  /\ deals[1].id = "SWP-005"
  /\ deals[2].id = "SWP-004"
  /\ deals[1].leg1 # deals[2].leg1
  /\ \A i \in 1..3 : deals[i + 2] = MockDeals[i]

\* the runs of handleAiAnalyze started from instance v that await their
\* request
InFlight(v) == { i \in 1..Len(aiRuns) : aiRuns[i].view = v /\ ~aiRuns[i].settled }

\* a run of instance v has settled with a non-empty analysis
HasAnalysis(v) ==
  \E i \in 1..Len(aiRuns) :
    aiRuns[i].view = v /\ aiRuns[i].settled /\ aiRuns[i].analysis # ""

\* C23: a request starts only in a step taken on the results view on screen
\* while its loadingAi is false and its aiAnalysis is empty, and one request
\* at a time; no request starts for a view one of whose requests has settled
\* with a non-empty analysis; at most one request of a view is in flight.
C23_SingleRequest ==
  /\ [][aiRuns' # aiRuns /\ Len(aiRuns') # Len(aiRuns) =>
          /\ Shown # 0
          /\ ~views[Shown].loadingAi
          /\ views[Shown].aiAnalysis = ""
          /\ ~HasAnalysis(Shown)
          /\ Len(aiRuns') = Len(aiRuns) + 1
          /\ aiRuns'[Len(aiRuns')].view = Shown
          /\ ~aiRuns'[Len(aiRuns')].settled
          /\ \A i \in 1..Len(aiRuns) : aiRuns'[i] = aiRuns[i]]_vars
  /\ [](\A v \in 1..Len(views) : Cardinality(InFlight(v)) <= 1)

\* the request of the first view is still in flight while the second view,
\* on screen, shows the failure of its own request and no button
C23_Witness ==
  /\ Shown = 2
  /\ Len(aiRuns) = 2
  /\ InFlight(1) = {1}
  /\ aiRuns[2].view = 2
  /\ aiRuns[2].remote
  /\ aiRuns[2].settled
  /\ views[2].aiAnalysis = FailedToGenerate
  /\ ~RunAnalysisClickable(views[2])

\* the texts written about a deal of the list other than d
AnalysesOfOthers(d) ==
  { AnalysisOf(deals[i]) : i \in { j \in 1..Len(deals) : deals[j] # d } }

\* C24: the results view on screen shows the displayed deal, and its analysis
\* is empty or the text stored by a run started from this view, never the
\* text written about another deal; its loadingAi is true only while a run
\* of this view is in flight; a view starts with an empty analysis and
\* loadingAi false; a run that resumes after its view was left changes
\* nothing of the view on screen.
C24_AnalysisOfDisplayedDeal ==
  /\ [](Shown # 0 =>
          /\ views[Shown].deal = currentDeal
          /\ views[Shown].result = pricingResult
          /\ views[Shown].aiAnalysis \notin AnalysesOfOthers(currentDeal)
          /\ views[Shown].aiAnalysis # "" =>
                \E i \in 1..Len(aiRuns) :
                  /\ aiRuns[i].view = Shown
                  /\ aiRuns[i].settled
                  /\ aiRuns[i].analysis = views[Shown].aiAnalysis
          /\ views[Shown].loadingAi => InFlight(Shown) # {})
  /\ [][(Shown' # 0 /\ Shown' # Shown) =>
          /\ views'[Shown'].aiAnalysis = ""
          /\ ~views'[Shown'].loadingAi]_vars
  /\ [][(Shown # 0 /\ Shown' = Shown
           /\ \E i \in 1..Len(aiRuns) :
                aiRuns[i].view # Shown /\ ~aiRuns[i].settled /\ aiRuns'[i].settled)
          => views'[Shown] = views[Shown]]_vars

\* the response for the first deal arrived after its view was left, while
\* the view of the second deal is on screen with its own request in flight
C24_Witness ==
  /\ Shown = 2
  /\ Len(aiRuns) = 2
  /\ aiRuns[1].view = 1
  /\ aiRuns[1].settled
  /\ aiRuns[1].late
  /\ aiRuns[1].analysis = AnalysisOf(views[1].deal)
  /\ views[1].deal # currentDeal
  /\ InFlight(2) = {2}
  /\ views[2].aiAnalysis = ""
  /\ views[2].loadingAi

\* the runs of handleAiAnalyze whose await has resumed
SettledRuns == { i \in 1..Len(aiRuns) : aiRuns[i].settled }

\* C25: the promise of analyzeSwapDeal is never rejected, so the catch of
\* handleAiAnalyze stores nothing; without an API key no remote request is
\* issued and the run stores the 'API Key missing' message; a run whose
\* remote request failed stores the 'Failed to generate analysis' message;
\* the step in which a run resumes leaves its view with loadingAi false and
\* the non-empty text of the run as aiAnalysis.
C25_FailuresAreStrings ==
  /\ [](\A i \in 1..Len(aiRuns) : ~aiRuns[i].key => ~aiRuns[i].remote)
  /\ [](\A i \in SettledRuns :
          /\ aiRuns[i].analysis # UnableToConnect
          /\ aiRuns[i].analysis # ""
          /\ ~aiRuns[i].remote => aiRuns[i].analysis = ApiKeyMissing
          /\ (aiRuns[i].remote /\ ~aiRuns[i].response.ok)
               => aiRuns[i].analysis = FailedToGenerate
          /\ ~views[aiRuns[i].view].loadingAi
          /\ views[aiRuns[i].view].aiAnalysis = aiRuns[i].analysis)
  /\ [][\A i \in 1..Len(aiRuns) :
          (~aiRuns[i].settled /\ aiRuns'[i].settled) =>
            /\ ~views'[aiRuns[i].view].loadingAi
            /\ views'[aiRuns[i].view].aiAnalysis # ""]_vars

\* the remote request of the first view failed and the one of the second
\* view came back without a text: both views hold a message and neither is
\* loading
C25_Witness ==
  /\ SettledRuns = {1, 2}
  /\ aiRuns[1].remote
  /\ ~aiRuns[1].response.ok
  /\ views[1].aiAnalysis = FailedToGenerate
  /\ ~views[1].loadingAi
  /\ aiRuns[2].view = 2
  /\ aiRuns[2].response = [ok |-> TRUE, text |-> ""]
  /\ views[2].aiAnalysis = NoAnalysis
  /\ ~views[2].loadingAi
====
